---- MODULE Spec2Model ----
(***************************************************************************)
(* Model of the S21 monitor's command tracker (src/s21_common.py) and of   *)
(* the display that reads it (src/s21_debug.py).                           *)
(*                                                                         *)
(* Strings of the program (command names, hex values, dumps) are sequences *)
(* of character codes, so that Python's string order and slicing are       *)
(* computed, not assumed.  Directions are only compared for equality and   *)
(* are TLA+ strings.  Timestamps are clock ticks.                          *)
(***************************************************************************)
EXTENDS Integers, Sequences, FiniteSets, TLC

VARIABLES
    commands,        \* S21CommandTracker.commands: name -> stored state
    recent_changes,  \* S21CommandTracker.recent_changes
    screen,          \* what the last update_display iterated over
    calls,           \* number of completed update_command calls
    last_call,       \* arguments of the most recent update_command call
    returned,        \* value returned by the most recent update_command call
    before,          \* commands and recent_changes just before that call
    last_args,       \* per command, the arguments of its most recent call
    all_changes,     \* every ChangeRecord ever appended, in arrival order
    old_str,         \* highlight_diff: first argument
    new_str,         \* highlight_diff: second argument
    highlighted,     \* highlight_diff: the returned pair, once it has returned
    pc,              \* where the MQTT network thread is in its callback
    packets,         \* on_message: the parsed records not yet processed
    msg_direction,   \* on_message: direction of the message being processed
    has_changes,     \* on_message: some update_command call returned True
    entry_history,   \* recent_changes when the running update_command was entered
    received,        \* number of messages delivered to on_message
    observed,        \* the tracker as the last update_display found it
    handling         \* the last message delivered and what was done for it

tracker_vars == <<commands, recent_changes, screen, calls, last_call, returned,
                  before, last_args, all_changes>>

diff_vars == <<old_str, new_str, highlighted>>

message_vars == <<pc, packets, msg_direction, has_changes, entry_history, received,
                  handling>>

vars == <<tracker_vars, diff_vars, observed, message_vars>>

----------------------------------------------------------------------------
(* Bounds and input alphabets *)

MaxCalls == 3
MaxHistoryCalls == 7
MaxLimit == 6
MaxStrLen == 3
MaxAnyCalls == 2
MaxMessages == 2
MaxStreamMessages == 4

\* "A1", "A10", "B0": a name, a name it is a proper prefix of, a later name
Commands == {<<65, 49>>, <<65, 49, 48>>, <<66, 48>>}
\* "", "01"
Values == {<<>>, <<48, 49>>}
\* "", "F"
Dumps == {<<>>, <<70>>}
Directions == {"TX", "RX"}

\* directions of any kind: the two of the protocol, an unknown one, none
AnyDirections == {"TX", "RX", "??", ""}
\* "A1", "B0"
AnyCommands == {<<65, 49>>, <<66, 48>>}

\* characters of the strings given to highlight_diff: "A", "B", "C", "D"
Alphabet == {65, 66, 67, 68}

\* inputs of the long runs: "D1", "D2"; "00", "01"
HistoryCommands == {<<68, 49>>, <<68, 50>>}
HistoryValues == {<<48, 48>>, <<48, 49>>}

----------------------------------------------------------------------------
(* Program constants *)

\* len(self.recent_changes) > 5
MaxRecentChanges == 5
\* self.tracker.recent_changes[-5:]
DisplayLimit == 5

\* Python's None for old_value: no string is equal to it
None == <<-1>>

\* a call that passes no dump argument
Omitted == <<-2>>

----------------------------------------------------------------------------
(* highlight_diff *)

\* INVERT = '\033[7m', RESET = '\033[0m'
INVERT == <<27, 91, 55, 109>>
RESET == <<27, 91, 48, 109>>

\* old_str[i] if i < len(old_str) else '' (i counts from 0)
char_at(str, i) == IF i < Len(str) THEN <<str[i + 1]>> ELSE <<>>

\* variant: the marker is opened and never closed
marked_unclosed(char) == INVERT \o char

\* f"{INVERT}{old_char}{RESET}"
marked(char) == INVERT \o char \o RESET

\* variant: the test is inverted, equal characters get the marker
piece_marking_equal(mine, other, i) ==
    LET my_char == char_at(mine, i)
        other_char == char_at(other, i)
    IN  IF my_char = other_char
        THEN IF my_char /= <<>> THEN marked(my_char) ELSE <<>>
        ELSE my_char

\* what one round of the loop appends to the result of `mine`, `other`
\* being the string it is compared with
piece(mine, other, i) ==
    LET my_char == char_at(mine, i)
        other_char == char_at(other, i)
    IN  IF my_char /= other_char
        THEN IF my_char /= <<>> THEN marked(my_char) ELSE <<>>
        ELSE my_char

\* variant: min instead of max, the loop stops at the end of the shorter string
min_len(old, new) == IF Len(old) < Len(new) THEN Len(old) ELSE Len(new)

\* max(len(old_str), len(new_str))
max_len(old, new) == IF Len(old) > Len(new) THEN Len(old) ELSE Len(new)

\* ''.join of the pieces of rounds i .. max_len - 1
RECURSIVE joined_from(_, _, _)
joined_from(mine, other, i) ==
    IF i >= max_len(mine, other) THEN <<>>
    ELSE piece(mine, other, i) \o joined_from(mine, other, i + 1)

\* variant: equal strings are returned with a closing RESET
equal_result_reset(old, new) == <<old \o RESET, new \o RESET>>

\* if old_str == new_str: return old_str, new_str
equal_result(old, new) == <<old, new>>

highlight_diff(old, new) ==
    IF old = new
    THEN equal_result(old, new)
    ELSE <<joined_from(old, new, 0), joined_from(new, old, 0)>>

----------------------------------------------------------------------------
(* S21CommandTracker.update_command, piece by piece *)

\* variant: the default of the parameter is None, stored as the text "None"
dump_parameter_none(dump_arg) ==
    IF dump_arg = Omitted THEN <<78, 111, 110, 101>> ELSE dump_arg

\* dump: str = ''
dump_parameter(dump_arg) == IF dump_arg = Omitted THEN <<>> ELSE dump_arg

is_tracked(cmds, command) == command \in DOMAIN cmds

old_value_of(cmds, command) ==
    IF is_tracked(cmds, command) THEN cmds[command].value ELSE None

old_dump_of(cmds, command) ==
    IF is_tracked(cmds, command) THEN cmds[command].dump ELSE <<>>

value_changed_of(cmds, command, value) ==
    IF is_tracked(cmds, command) THEN cmds[command].value /= value ELSE TRUE

dump_changed_of(cmds, command, dump) ==
    IF is_tracked(cmds, command) THEN old_dump_of(cmds, command) /= dump ELSE TRUE

direction_changed_of(cmds, command, direction) ==
    cmds[command].direction /= direction

\* variant: a direction flip is not seen as a change
changed_of_ignoring_direction(cmds, command, value, direction, dump) ==
    IF is_tracked(cmds, command)
    THEN \/ value_changed_of(cmds, command, value)
         \/ dump_changed_of(cmds, command, dump)
    ELSE TRUE

changed_of(cmds, command, value, direction, dump) ==
    IF is_tracked(cmds, command)
    THEN \/ value_changed_of(cmds, command, value)
         \/ dump_changed_of(cmds, command, dump)
         \/ direction_changed_of(cmds, command, direction)
    ELSE TRUE

\* variant: "if changed and old_value and ...": an empty old value is no prior state
records_change_if_truthy(cmds, command, value, direction, dump) ==
    /\ changed_of(cmds, command, value, direction, dump)
    /\ old_value_of(cmds, command) /= None
    /\ old_value_of(cmds, command) /= <<>>
    /\ \/ value_changed_of(cmds, command, value)
       \/ dump_changed_of(cmds, command, dump)

\* variant: the test for a prior state is left out
records_change_without_prior(cmds, command, value, direction, dump) ==
    /\ changed_of(cmds, command, value, direction, dump)
    /\ \/ value_changed_of(cmds, command, value)
       \/ dump_changed_of(cmds, command, dump)

\* variant: every change of the stored state is recorded, a direction flip too
records_change_on_any_change(cmds, command, value, direction, dump) ==
    /\ changed_of(cmds, command, value, direction, dump)
    /\ old_value_of(cmds, command) /= None

\* if changed and old_value is not None and (value_changed or dump_changed)
records_change(cmds, command, value, direction, dump) ==
    /\ changed_of(cmds, command, value, direction, dump)
    /\ old_value_of(cmds, command) /= None
    /\ \/ value_changed_of(cmds, command, value)
       \/ dump_changed_of(cmds, command, dump)

\* variant: the record is built from the new state on both sides
change_record_new_as_old(cmds, command, value, direction, timestamp, dump) ==
    [command       |-> command,
     old_value     |-> value,
     new_value     |-> value,
     old_dump      |-> dump,
     new_dump      |-> dump,
     direction     |-> direction,
     timestamp     |-> timestamp,
     value_changed |-> value_changed_of(cmds, command, value),
     dump_changed  |-> dump_changed_of(cmds, command, dump)]

\* variant: the record keeps the direction of the stored state
change_record_old_direction(cmds, command, value, direction, timestamp, dump) ==
    [command       |-> command,
     old_value     |-> old_value_of(cmds, command),
     new_value     |-> value,
     old_dump      |-> old_dump_of(cmds, command),
     new_dump      |-> dump,
     direction     |-> cmds[command].direction,
     timestamp     |-> timestamp,
     value_changed |-> value_changed_of(cmds, command, value),
     dump_changed  |-> dump_changed_of(cmds, command, dump)]

change_record(cmds, command, value, direction, timestamp, dump) ==
    [command       |-> command,
     old_value     |-> old_value_of(cmds, command),
     new_value     |-> value,
     old_dump      |-> old_dump_of(cmds, command),
     new_dump      |-> dump,
     direction     |-> direction,
     timestamp     |-> timestamp,
     value_changed |-> value_changed_of(cmds, command, value),
     dump_changed  |-> dump_changed_of(cmds, command, dump)]

\* variant: pop() instead of pop(0): the newest record is dropped
append_change_drop_newest(history, record) ==
    LET appended == Append(history, record)
    IN  IF Len(appended) > MaxRecentChanges
        THEN SubSeq(appended, 1, Len(appended) - 1)
        ELSE appended

\* if len(self.recent_changes) > 5: self.recent_changes.pop(0)
evict(history) ==
    IF Len(history) > MaxRecentChanges THEN Tail(history) ELSE history

\* self.recent_changes.append(change_record); pop(0) when longer than 5
append_change(history, record) == evict(Append(history, record))

new_recent_changes(cmds, history, command, value, direction, timestamp, dump) ==
    IF records_change(cmds, command, value, direction, dump)
    THEN append_change(history,
                       change_record(cmds, command, value, direction, timestamp, dump))
    ELSE history

\* variant: self.commands is replaced by a mapping of this command alone
store_command_alone(cmds, command, value, direction, timestamp, dump) ==
    [k \in {command} |->
        [value |-> value, direction |-> direction,
         timestamp |-> timestamp, dump |-> dump]]

\* variant: an empty dump does not replace the stored dump
store_command_merging(cmds, command, value, direction, timestamp, dump) ==
    [k \in DOMAIN cmds \cup {command} |->
        IF k = command
        THEN [value |-> value, direction |-> direction,
              timestamp |-> timestamp,
              dump |-> IF dump = <<>> /\ is_tracked(cmds, command)
                       THEN cmds[command].dump ELSE dump]
        ELSE cmds[k]]

\* variant: the state is stored only when something changed
store_command_if_changed(cmds, command, value, direction, timestamp, dump) ==
    IF is_tracked(cmds, command) /\ ~changed_of(cmds, command, value, direction, dump)
    THEN cmds
    ELSE [k \in DOMAIN cmds \cup {command} |->
            IF k = command
            THEN [value |-> value, direction |-> direction,
                  timestamp |-> timestamp, dump |-> dump]
            ELSE cmds[k]]

\* self.commands[command] = {...}
store_command(cmds, command, value, direction, timestamp, dump) ==
    [k \in DOMAIN cmds \cup {command} |->
        IF k = command
        THEN [value |-> value, direction |-> direction,
              timestamp |-> timestamp, dump |-> dump]
        ELSE cmds[k]]

----------------------------------------------------------------------------
(* S21CommandTracker.get_sorted_commands *)

\* variant: shorter names first, names of one length code point by code point
RECURSIVE str_lt_same_length(_, _)
str_lt_same_length(a, b) ==
    IF a = <<>> \/ b = <<>> THEN FALSE
    ELSE IF Head(a) /= Head(b) THEN Head(a) < Head(b)
    ELSE str_lt_same_length(Tail(a), Tail(b))

str_lt_shortlex(a, b) ==
    IF Len(a) /= Len(b) THEN Len(a) < Len(b) ELSE str_lt_same_length(a, b)

\* Python's str.__lt__: code point by code point, a proper prefix is smaller
RECURSIVE str_lt(_, _)
str_lt(a, b) ==
    IF b = <<>> THEN FALSE
    ELSE IF a = <<>> THEN TRUE
    ELSE IF Head(a) /= Head(b) THEN Head(a) < Head(b)
    ELSE str_lt(Tail(a), Tail(b))

\* self.commands.items()
items(cmds) == {<<k, cmds[k]>> : k \in DOMAIN cmds}

\* tuple order of (name, state) pairs; names are distinct dict keys, so the
\* first component always decides
item_lt(x, y) == str_lt(x[1], y[1])

RECURSIVE sorted(_)
sorted(S) ==
    IF S = {} THEN <<>>
    ELSE LET least == CHOOSE x \in S : \A y \in S \ {x} : item_lt(x, y)
         IN  <<least>> \o sorted(S \ {least})

get_sorted_commands(cmds) == sorted(items(cmds))

----------------------------------------------------------------------------
(* S21DebugMonitor.update_display: what it reads from the tracker *)

\* variant: history[:limit], the first entries
first_entries(history, limit) ==
    SubSeq(history, 1, IF limit < Len(history) THEN limit ELSE Len(history))

\* Python's history[-limit:] for limit >= 1
last_entries(history, limit) ==
    LET n == Len(history)
        start == IF n - limit < 0 THEN 0 ELSE n - limit
    IN  SubSeq(history, start + 1, n)

display_of(cmds, history) ==
    [waiting |-> DOMAIN cmds = {},
     table   |-> IF DOMAIN cmds = {} THEN <<>> ELSE get_sorted_commands(cmds),
     changes |-> IF history /= <<>> THEN last_entries(history, DisplayLimit) ELSE <<>>]

----------------------------------------------------------------------------
(* State machine *)

NoCall == [command |-> <<>>, value |-> <<>>, direction |-> "",
           timestamp |-> 0, dump |-> <<>>, omitted |-> FALSE]

Blank == [waiting |-> FALSE, table |-> <<>>, changes |-> <<>>]

\* highlight_diff has not been called
NotCalled == <<>>

TrackerInit ==
    /\ commands = <<>>
    /\ recent_changes = <<>>
    /\ screen = Blank
    /\ calls = 0
    /\ last_call = NoCall
    /\ returned = FALSE
    /\ before = [commands |-> <<>>, recent_changes |-> <<>>]
    /\ last_args = <<>>
    /\ all_changes = <<>>

NothingObserved == [commands |-> <<>>, recent_changes |-> <<>>,
                    last_args |-> <<>>]

NothingHandled == [msg |-> <<>>, parsed |-> <<>>, applied |-> <<>>,
                   refreshes |-> 0, refreshed_after |-> 0,
                   calls_before |-> 0, commands_before |-> <<>>,
                   changes_before |-> <<>>, outcome |-> "none"]

MessageInit ==
    /\ pc = "idle"
    /\ packets = <<>>
    /\ msg_direction = ""
    /\ has_changes = FALSE
    /\ entry_history = <<>>
    /\ received = 0
    /\ observed = NothingObserved
    /\ handling = NothingHandled

Init ==
    /\ TrackerInit
    /\ MessageInit
    /\ old_str = <<>>
    /\ new_str = <<>>
    /\ highlighted = NotCalled

\* The history kept beside the program: a change-worthy update is one for a
\* tracked command whose value or dump differs from the stored one, and its
\* record holds the stored value and dump and the arguments of the call.
change_worthy(cmds, command, value, dump) ==
    /\ command \in DOMAIN cmds
    /\ \/ cmds[command].value /= value
       \/ cmds[command].dump /= dump

expected_record(cmds, command, value, direction, timestamp, dump) ==
    [command       |-> command,
     old_value     |-> cmds[command].value,
     new_value     |-> value,
     old_dump      |-> cmds[command].dump,
     new_dump      |-> dump,
     direction     |-> direction,
     timestamp     |-> timestamp,
     value_changed |-> cmds[command].value /= value,
     dump_changed  |-> cmds[command].dump /= dump]

\* the call as the caller meant it: a call without dump is a call with dump ""
given_dump(dump_arg) == IF dump_arg = Omitted THEN <<>> ELSE dump_arg

update_command(command, value, direction, timestamp, dump_arg) ==
    LET dump == dump_parameter(dump_arg)
        given == given_dump(dump_arg)
    IN
    /\ recent_changes' =
           new_recent_changes(commands, recent_changes,
                              command, value, direction, timestamp, dump)
    /\ commands' = store_command(commands, command, value, direction, timestamp, dump)
    /\ returned' = changed_of(commands, command, value, direction, dump)
    /\ calls' = calls + 1
    /\ last_call' = [command |-> command, value |-> value, direction |-> direction,
                     timestamp |-> timestamp, dump |-> given,
                     omitted |-> dump_arg = Omitted]
    /\ before' = [commands |-> commands, recent_changes |-> recent_changes]
    /\ last_args' = [k \in DOMAIN last_args \cup {command} |->
                        IF k = command THEN last_call' ELSE last_args[k]]
    /\ all_changes' =
           IF change_worthy(commands, command, value, given)
           THEN Append(all_changes,
                       expected_record(commands, command, value, direction,
                                       timestamp, given))
           ELSE all_changes
    /\ UNCHANGED screen
    /\ UNCHANGED diff_vars
    /\ UNCHANGED <<observed, message_vars>>

\* update_display reads the tracker and prints what it finds
refresh ==
    /\ screen' = display_of(commands, recent_changes)
    /\ observed' = [commands |-> commands, recent_changes |-> recent_changes,
                    last_args |-> last_args]

update_display ==
    /\ refresh
    /\ UNCHANGED <<commands, recent_changes, calls, last_call, returned,
                   before, last_args, all_changes>>
    /\ UNCHANGED diff_vars
    /\ UNCHANGED message_vars

\* 'timestamp': datetime.now(): the tick of a clock that advances with every record
now == calls + 1

Next ==
    \E command \in Commands, value \in Values, direction \in Directions,
          dump \in Dumps :
          /\ calls < MaxCalls
          /\ update_command(command, value, direction, now, dump)

Spec == Init /\ [][Next]_vars

\* long runs of one traffic direction without dump, with the display refreshed
\* at any point between two updates
HistoryNext ==
    \/ \E command \in HistoryCommands, value \in HistoryValues :
          /\ calls < MaxHistoryCalls
          /\ update_command(command, value, "RX", now, <<>>)
    \/ update_display

SpecHistory == Init /\ [][HistoryNext]_vars

\* update_command with arguments of any kind, dump passed or not
AnyNext ==
    \E command \in AnyCommands, value \in Values, direction \in AnyDirections,
          dump_arg \in Dumps \cup {Omitted} :
          /\ calls < MaxAnyCalls
          /\ update_command(command, value, direction, now, dump_arg)

SpecAnyInput == Init /\ [][AnyNext]_vars

\* highlight_diff on every pair of strings of at most MaxStrLen characters
Strings == UNION {[1..n -> Alphabet] : n \in 0..MaxStrLen}

DiffInit ==
    /\ TrackerInit
    /\ MessageInit
    /\ old_str \in Strings
    /\ new_str \in Strings
    /\ highlighted = NotCalled

highlight ==
    /\ highlighted = NotCalled
    /\ highlighted' = highlight_diff(old_str, new_str)
    /\ UNCHANGED <<old_str, new_str>>
    /\ UNCHANGED tracker_vars
    /\ UNCHANGED <<observed, message_vars>>

DiffNext == highlight

SpecDiff == DiffInit /\ [][DiffNext]_vars

----------------------------------------------------------------------------
(* S21Parser: JSON values, to_hex_string, parse_s21_packet *)

\* what json.loads yields for the values of the modelled messages
JStr(text) == [type |-> "str", text |-> text, n |-> 0]
JInt(n) == [type |-> "int", text |-> <<>>, n |-> n]
JNone == [type |-> "null", text |-> <<>>, n |-> 0]

\* "protocol", "dump", "S21"
KeyProtocol == <<112, 114, 111, 116, 111, 99, 111, 108>>
KeyDump == <<100, 117, 109, 112>>
S21 == <<83, 50, 49>>

\* `not value`: the empty string, zero and None are falsy
is_falsy(value) ==
    \/ value.type = "null"
    \/ value.type = "str" /\ value.text = <<>>
    \/ value.type = "int" /\ value.n = 0

\* str(n) for n >= 0
RECURSIVE decimal(_)
decimal(n) ==
    IF n < 10 THEN <<48 + n>> ELSE decimal(n \div 10) \o <<48 + (n % 10)>>

\* str(value)
str_of(value) ==
    IF value.type = "str" THEN value.text
    ELSE IF value.type = "int" THEN decimal(value.n)
    ELSE <<78, 111, 110, 101>>

hex_digit(d) == IF d < 10 THEN 48 + d ELSE 55 + d

\* ''.join(f'{ord(c):02X}' for c in text), for code points below 256
RECURSIVE hex_of(_)
hex_of(text) ==
    IF text = <<>> THEN <<>>
    ELSE <<hex_digit(Head(text) \div 16), hex_digit(Head(text) % 16)>>
         \o hex_of(Tail(text))

to_hex_string(value) ==
    IF is_falsy(value) THEN <<>> ELSE hex_of(str_of(value))

\* json_data.get(key, default); the keys of a JSON object are distinct
json_get(fields, key, default) ==
    IF \E i \in 1..Len(fields) : fields[i][1] = key
    THEN fields[CHOOSE i \in 1..Len(fields) : fields[i][1] = key][2]
    ELSE default

\* variant: every key but 'protocol' and 'dump' is a command, short ones too
is_command_key_any_length(key) == key /= KeyProtocol /\ key /= KeyDump

\* key not in ['protocol', 'dump'] and len(key) >= 2
is_command_key(key) == key /= KeyProtocol /\ key /= KeyDump /\ Len(key) >= 2

\* the for loop over json_data.items(): one record per command key, in the
\* order of the object, each stamped datetime.now()
RECURSIVE commands_of(_, _, _)
commands_of(fields, dump_data, clock) ==
    IF fields = <<>> THEN <<>>
    ELSE IF is_command_key(Head(fields)[1])
         THEN <<[command   |-> Head(fields)[1],
                 payload   |-> to_hex_string(Head(fields)[2]),
                 dump      |-> dump_data,
                 timestamp |-> clock]>>
              \o commands_of(Tail(fields), dump_data, clock + 1)
         ELSE commands_of(Tail(fields), dump_data, clock)

\* variant: the protocol field is not looked at
accepts_protocol_any(fields) == TRUE

\* json_data.get('protocol') == 'S21'
accepts_protocol(fields) == json_get(fields, KeyProtocol, JNone) = JStr(S21)

\* data is the decoded payload: empty text, text that is no JSON, JSON that
\* is no object (its .get raises, which the except clause turns into []),
\* or a JSON object.  The dumps of the modelled messages are JSON strings.
parse_s21_packet(data, clock) ==
    IF data.kind = "empty" THEN <<>>
    ELSE IF data.kind = "invalid" THEN <<>>
    ELSE IF data.kind = "not_object" THEN <<>>
    ELSE IF accepts_protocol(data.fields)
         THEN commands_of(data.fields,
                          json_get(data.fields, KeyDump, JStr(<<>>)).text,
                          clock)
         ELSE <<>>

----------------------------------------------------------------------------
(* S21DebugMonitor.on_message and on_connect, run by the MQTT network loop *)

\* topic.endswith(suffix)
ends_with(str, suffix) ==
    /\ Len(suffix) <= Len(str)
    /\ SubSeq(str, Len(str) - Len(suffix) + 1, Len(str)) = suffix

\* "TX" if topic.endswith('/tx') else "RX"
direction_of(topic) == IF ends_with(topic, <<47, 116, 120>>) THEN "TX" ELSE "RX"

\* variant: callbacks are dispatched while another one is still running
callback_may_run_anytime == TRUE

\* client.loop_start(): one network thread runs the callbacks, one at a time
callback_may_run == pc = "idle"

\* variant: the loop stops at the first record that changed something
rest_after_change(records, changed) == IF changed THEN <<>> ELSE Tail(records)

\* for packet in packets: the records left after this one
rest_after(records, changed) == Tail(records)

\* variant: the display is refreshed after every message that had records
wants_refresh_always(changes) == TRUE

\* if has_changes: self.update_display()
wants_refresh(changes) == changes

\* msg.payload.decode('utf-8') and parse_s21_packet; bytes that are no UTF-8
\* raise, and the except clause of on_message ends the callback
records_of(msg, clock) ==
    IF msg.payload.kind = "undecodable" THEN <<>>
    ELSE parse_s21_packet(msg.payload, clock)

on_message_begin(msg) ==
    LET parsed == records_of(msg, calls + 1)
        started == [msg |-> msg, parsed |-> parsed, applied |-> <<>>,
                    refreshes |-> 0, refreshed_after |-> 0,
                    calls_before |-> calls, commands_before |-> commands,
                    changes_before |-> recent_changes, outcome |-> "running"]
    IN
    /\ callback_may_run
    /\ received' = received + 1
    /\ IF parsed = <<>>
       THEN /\ pc' = "idle"
            /\ packets' = <<>>
            /\ msg_direction' = ""
            /\ handling' = [started EXCEPT !.outcome = "returned"]
       ELSE /\ pc' = "loop"
            /\ packets' = parsed
            /\ msg_direction' = direction_of(msg.topic)
            /\ handling' = started
    /\ has_changes' = FALSE
    /\ UNCHANGED <<tracker_vars, diff_vars, observed, entry_history>>

\* update_command up to self.recent_changes.append(change_record)
update_append ==
    /\ pc = "loop"
    /\ LET p == Head(packets)
       IN  IF records_change(commands, p.command, p.payload, msg_direction, p.dump)
           THEN /\ recent_changes' =
                      Append(recent_changes,
                             change_record(commands, p.command, p.payload,
                                           msg_direction, p.timestamp, p.dump))
                /\ pc' = "appended"
           ELSE /\ recent_changes' = recent_changes
                /\ pc' = "store"
    /\ entry_history' = recent_changes
    /\ UNCHANGED <<commands, screen, calls, last_call, returned, before, last_args,
                   all_changes, diff_vars, observed, packets, msg_direction,
                   has_changes, received, handling>>

\* update_command: the eviction after the append
update_evict ==
    /\ pc = "appended"
    /\ recent_changes' = evict(recent_changes)
    /\ pc' = "store"
    /\ UNCHANGED <<commands, screen, calls, last_call, returned, before, last_args,
                   all_changes, diff_vars, observed, packets, msg_direction,
                   has_changes, entry_history, received, handling>>

\* update_command: the assignment to self.commands[command] and the return,
\* then the rest of the round of on_message's loop
update_store ==
    /\ pc = "store"
    /\ LET p == Head(packets)
           changed == changed_of(commands, p.command, p.payload, msg_direction, p.dump)
           rest == rest_after(packets, changed)
       IN  /\ commands' = store_command(commands, p.command, p.payload,
                                        msg_direction, p.timestamp, p.dump)
           /\ returned' = changed
           /\ calls' = calls + 1
           /\ last_call' = [command |-> p.command, value |-> p.payload,
                            direction |-> msg_direction, timestamp |-> p.timestamp,
                            dump |-> p.dump, omitted |-> FALSE]
           /\ before' = [commands |-> commands, recent_changes |-> entry_history]
           /\ last_args' = [k \in DOMAIN last_args \cup {p.command} |->
                               IF k = p.command THEN last_call' ELSE last_args[k]]
           /\ all_changes' =
                  IF change_worthy(commands, p.command, p.payload, p.dump)
                  THEN Append(all_changes,
                              expected_record(commands, p.command, p.payload,
                                              msg_direction, p.timestamp, p.dump))
                  ELSE all_changes
           /\ has_changes' = (has_changes \/ changed)
           /\ packets' = rest
           /\ pc' = IF rest = <<>> THEN "after_loop" ELSE "loop"
           /\ handling' = [handling EXCEPT
                             !.applied = Append(@, [record |-> p, returned |-> changed])]
    /\ UNCHANGED <<recent_changes, screen, diff_vars, observed, msg_direction,
                   entry_history, received>>

\* on_message after the loop: refresh the display if something changed
on_message_end ==
    /\ pc = "after_loop"
    /\ IF wants_refresh(has_changes)
       THEN /\ refresh
            /\ handling' = [handling EXCEPT
                              !.refreshes = @ + 1,
                              !.refreshed_after = Len(handling.applied),
                              !.outcome = "returned"]
       ELSE /\ UNCHANGED <<screen, observed>>
            /\ handling' = [handling EXCEPT !.outcome = "returned"]
    /\ pc' = "idle"
    /\ packets' = <<>>
    /\ msg_direction' = ""
    /\ has_changes' = FALSE
    /\ UNCHANGED <<commands, recent_changes, calls, last_call, returned, before,
                   last_args, all_changes, diff_vars, entry_history, received>>

\* on_connect: subscribe and show the interface when the broker accepted
on_connect(reason_code) ==
    /\ callback_may_run
    /\ IF reason_code = 0 THEN refresh ELSE UNCHANGED <<screen, observed>>
    /\ UNCHANGED <<commands, recent_changes, calls, last_call, returned, before,
                   last_args, all_changes, diff_vars, message_vars>>

----------------------------------------------------------------------------
(* Messages and the specifications of the message callbacks *)

\* topics "s/tx" and "s/rx"
TopicTx == <<115, 47, 116, 120>>
TopicRx == <<115, 47, 114, 120>>

Empty == [kind |-> "empty", fields |-> <<>>]
Invalid == [kind |-> "invalid", fields |-> <<>>]
NotObject == [kind |-> "not_object", fields |-> <<>>]
Undecodable == [kind |-> "undecodable", fields |-> <<>>]
Object(fields) == [kind |-> "object", fields |-> fields]

\* "protocol": "S21", "protocol": "S22", "dump": "F"
ProtocolS21 == <<KeyProtocol, JStr(S21)>>
ProtocolS22 == <<KeyProtocol, JStr(<<83, 50, 50>>)>>
DumpF == <<KeyDump, JStr(<<70>>)>>

\* "A1", "B0" and the one-character key "X"
A1 == <<65, 49>>
B0 == <<66, 48>>
X == <<88>>

\* payloads from which no record comes
DroppedPayloads ==
    {Empty, Invalid, NotObject, Undecodable,
     Object(<<ProtocolS22, <<A1, JStr(<<49>>)>>>>),
     Object(<<<<A1, JStr(<<49>>)>>>>),
     Object(<<ProtocolS21>>),
     Object(<<ProtocolS21, DumpF>>),
     Object(<<ProtocolS21, <<X, JStr(<<49>>)>>>>)}

\* with or without a dump field
WithDump(fields) == {Object(<<ProtocolS21>> \o fields),
                     Object(<<ProtocolS21, DumpF>> \o fields)}

\* payloads with one or two records: "A1" as "0", "1" or the number 0;
\* "A1" then "B0"; "B0" then "A1"; a one-character key before "A1"
RecordPayloads ==
    UNION {WithDump(<<<<A1, v>>>>) : v \in {JStr(<<48>>), JStr(<<49>>), JInt(0)}}
    \cup UNION {WithDump(<<<<A1, v>>, <<B0, JStr(<<49>>)>>>>) :
                   v \in {JStr(<<48>>), JStr(<<49>>)}}
    \cup {Object(<<ProtocolS21, <<B0, JStr(<<49>>)>>, <<A1, JStr(<<48>>)>>>>),
          Object(<<ProtocolS21, <<X, JStr(<<49>>)>>, <<A1, JInt(10)>>>>)}

Messages == [topic : {TopicTx, TopicRx}, payload : DroppedPayloads \cup RecordPayloads]

\* reason codes of on_connect: accepted, refused
ReasonCodes == {0, 5}

MessagesNext ==
    \/ \E msg \in Messages : received < MaxMessages /\ on_message_begin(msg)
    \/ update_append
    \/ update_evict
    \/ update_store
    \/ on_message_end
    \/ \E reason_code \in ReasonCodes : on_connect(reason_code)

SpecMessages == Init /\ [][MessagesNext]_vars

\* a stream of received messages that keep changing "D1" and "D2"
D1 == <<68, 49>>
D2 == <<68, 50>>

StreamMessages ==
    [topic : {TopicRx},
     payload : {Object(<<ProtocolS21, <<D1, JStr(<<48>>)>>, <<D2, JStr(<<48>>)>>>>),
                Object(<<ProtocolS21, <<D1, JStr(<<49>>)>>, <<D2, JStr(<<49>>)>>>>),
                Object(<<ProtocolS21, <<D1, JStr(<<49>>)>>>>)}]

StreamNext ==
    \/ \E msg \in StreamMessages :
          received < MaxStreamMessages /\ on_message_begin(msg)
    \/ update_append
    \/ update_evict
    \/ update_store
    \/ on_message_end
    \/ \E reason_code \in ReasonCodes : on_connect(reason_code)

SpecStream == Init /\ [][StreamNext]_vars

----------------------------------------------------------------------------
(* The most recent update_command call, as the properties below read it *)

Called == calls > 0

\* the command of the most recent call was tracked before it
WasTracked == last_call.command \in DOMAIN before.commands

\* what was stored for that command before the call
Stored == before.commands[last_call.command]

\* the state a call's arguments describe
StateOf(call) ==
    [value |-> call.value, direction |-> call.direction,
     timestamp |-> call.timestamp, dump |-> call.dump]

\* the most recent call appended exactly one record (and evicted the oldest
\* one if the history was full)
AppendedOne ==
    LET old == before.recent_changes
        n   == Len(old)
    IN  /\ recent_changes /= <<>>
        /\ recent_changes[Len(recent_changes)].command = last_call.command
        /\ recent_changes[Len(recent_changes)].timestamp = last_call.timestamp
        /\ IF n < MaxRecentChanges
           THEN /\ Len(recent_changes) = n + 1
                /\ SubSeq(recent_changes, 1, n) = old
           ELSE /\ Len(recent_changes) = n
                /\ SubSeq(recent_changes, 1, n - 1) = SubSeq(old, 2, n)

HistoryUntouched == recent_changes = before.recent_changes

----------------------------------------------------------------------------
(* C1: after any sequence of update_command calls, get_sorted_commands()    *)
(* holds exactly one entry per command name that appeared in a call, and    *)
(* the entry's value, dump, direction and timestamp are the arguments of    *)
(* the most recent call for that command.                                   *)
C1_LastWriteWins ==
    LET view == get_sorted_commands(commands)
    IN  /\ Len(view) = Cardinality(DOMAIN last_args)
        /\ {view[i][1] : i \in 1..Len(view)} = DOMAIN last_args
        /\ \A i \in 1..Len(view) : view[i][2] = StateOf(last_args[view[i][1]])

\* a command updated a second time with another value and another dump,
\* beside a second tracked command
C1_Witness ==
    /\ Called /\ WasTracked
    /\ Cardinality(DOMAIN commands) = 2
    /\ Stored.value /= last_call.value
    /\ Stored.dump /= <<>> /\ last_call.dump = <<>>

(* C2: an update_command call appends exactly one ChangeRecord if and only  *)
(* if its command was tracked before the call and the value or the dump     *)
(* differs from the stored one; otherwise the history is left as it was.    *)
(* An empty stored value counts as a prior state.                           *)
C2_RecordIffTrackedAndDiffers ==
    Called =>
        IF WasTracked /\ (Stored.value /= last_call.value \/ Stored.dump /= last_call.dump)
        THEN AppendedOne
        ELSE HistoryUntouched

\* the stored value was the empty string and the call brought a value
C2_Witness ==
    /\ Called /\ WasTracked
    /\ Stored.value = <<>> /\ last_call.value /= <<>>
    /\ Stored.dump = last_call.dump
    /\ Len(recent_changes) = Len(before.recent_changes) + 1

(* C3: the first update_command call for an untracked command returns true, *)
(* creates the command's state from the arguments and leaves recent_changes *)
(* exactly as it was.                                                       *)
C3_FirstSeen ==
    (Called /\ ~WasTracked) =>
        /\ returned
        /\ last_call.command \in DOMAIN commands
        /\ commands[last_call.command] = StateOf(last_call)
        /\ HistoryUntouched

\* a first-seen command arriving while the history already holds a record
C3_Witness ==
    /\ Called /\ ~WasTracked
    /\ before.recent_changes /= <<>>
    /\ recent_changes = before.recent_changes

(* C4: after every completed update_command call recent_changes has at     *)
(* most 5 entries and is the last min(n, 5) of the n change-worthy updates  *)
(* so far, in arrival order; a change-worthy update arriving at a full      *)
(* history removes the oldest entry, keeps the order of the other 4 and     *)
(* puts the new record last.                                                *)
C4_BoundedFifo ==
    LET n == Len(all_changes)
        k == IF n < MaxRecentChanges THEN n ELSE MaxRecentChanges
    IN  /\ Len(recent_changes) <= MaxRecentChanges
        /\ recent_changes = SubSeq(all_changes, n - k + 1, n)
        /\ (Called /\ Len(before.recent_changes) = MaxRecentChanges
                   /\ change_worthy(before.commands, last_call.command,
                                    last_call.value, last_call.dump))
           => /\ Len(recent_changes) = MaxRecentChanges
              /\ SubSeq(recent_changes, 1, MaxRecentChanges - 1)
                   = Tail(before.recent_changes)
              /\ recent_changes[MaxRecentChanges] = all_changes[n]

\* a change-worthy update has just arrived at a full history
C4_Witness ==
    /\ Called
    /\ Len(before.recent_changes) = MaxRecentChanges
    /\ Len(all_changes) > MaxRecentChanges
    /\ recent_changes /= before.recent_changes

(* C5: an update_command call for a tracked command with the stored value   *)
(* and dump but another direction returns true, stores the direction and    *)
(* timestamp of the call, and leaves recent_changes unchanged.              *)
C5_DirectionOnly ==
    (/\ Called /\ WasTracked
     /\ Stored.value = last_call.value
     /\ Stored.dump = last_call.dump
     /\ Stored.direction /= last_call.direction)
    => /\ returned
       /\ commands[last_call.command] = StateOf(last_call)
       /\ HistoryUntouched

\* a direction flip of a command that already has a record in the history
C5_Witness ==
    /\ Called /\ WasTracked
    /\ Stored.value = last_call.value
    /\ Stored.dump = last_call.dump
    /\ Stored.direction /= last_call.direction
    /\ Stored.timestamp /= last_call.timestamp
    /\ before.recent_changes /= <<>>
    /\ returned

(* C6: an update_command call whose value, dump and direction equal the     *)
(* stored state returns false and leaves recent_changes and the stored      *)
(* value, dump and direction unchanged; it changes only the stored          *)
(* timestamp, which becomes the timestamp of the call.                      *)
C6_IdenticalRefreshesTimestamp ==
    (/\ Called /\ WasTracked
     /\ Stored.value = last_call.value
     /\ Stored.dump = last_call.dump
     /\ Stored.direction = last_call.direction)
    => /\ ~returned
       /\ HistoryUntouched
       /\ commands = [before.commands EXCEPT
                        ![last_call.command].timestamp = last_call.timestamp]

\* an identical update stamped later than the stored state
C6_Witness ==
    /\ Called /\ WasTracked
    /\ Stored.value = last_call.value
    /\ Stored.dump = last_call.dump
    /\ Stored.direction = last_call.direction
    /\ Stored.timestamp /= last_call.timestamp
    /\ commands[last_call.command].timestamp = last_call.timestamp

(* C7: update_command returns true exactly when the command was not tracked *)
(* before the call or the value, the dump or the direction differs from the *)
(* stored state; another timestamp alone never makes it true.               *)
C7_ReturnValue ==
    Called =>
        (returned <=> \/ ~WasTracked
                      \/ Stored.value /= last_call.value
                      \/ Stored.dump /= last_call.dump
                      \/ Stored.direction /= last_call.direction)

\* a call that differs from the stored state in the timestamp alone, and
\* returns false, in a run where a dump-only change was recorded
C7_Witness ==
    /\ Called /\ WasTracked /\ ~returned
    /\ Stored.timestamp /= last_call.timestamp
    /\ \E i \in 1..Len(recent_changes) :
          recent_changes[i].dump_changed /\ ~recent_changes[i].value_changed

(* C8: every ChangeRecord in recent_changes holds, as old_value and         *)
(* old_dump, what was stored for its command just before the update that    *)
(* created it, and as new_value, new_dump, direction and timestamp that     *)
(* update's arguments; value_changed = (old_value /= new_value),            *)
(* dump_changed = (old_dump /= new_dump), and one of the two flags is true. *)
C8_RecordContents ==
    /\ \A i \in 1..Len(recent_changes) :
          LET r == recent_changes[i]
          IN  /\ \E j \in 1..Len(all_changes) : all_changes[j] = r
              /\ r.value_changed = (r.old_value /= r.new_value)
              /\ r.dump_changed = (r.old_dump /= r.new_dump)
              /\ r.value_changed \/ r.dump_changed
    /\ (Called /\ recent_changes /= before.recent_changes)
       => LET r == recent_changes[Len(recent_changes)]
          IN  /\ WasTracked
              /\ r.command = last_call.command
              /\ r.old_value = Stored.value
              /\ r.old_dump = Stored.dump
              /\ r.new_value = last_call.value
              /\ r.new_dump = last_call.dump
              /\ r.direction = last_call.direction
              /\ r.timestamp = last_call.timestamp

\* a record made by an update that changed the dump, kept the value and
\* came from the other direction
C8_Witness ==
    /\ Called /\ WasTracked
    /\ recent_changes /= before.recent_changes
    /\ Stored.direction /= last_call.direction
    /\ Stored.value = last_call.value
    /\ recent_changes[Len(recent_changes)].direction = last_call.direction

(* C9: get_sorted_commands() returns every tracked command exactly once,   *)
(* with its stored state, in strictly ascending lexicographic order of the  *)
(* command name, whatever the order in which the commands were added.       *)

\* a comes strictly before b in lexicographic order of the character codes
LexBefore(a, b) ==
    \E i \in 1..Len(b) :
        /\ i - 1 <= Len(a)
        /\ \A j \in 1..(i - 1) : a[j] = b[j]
        /\ i > Len(a) \/ a[i] < b[i]

C9_SortedView ==
    LET view == get_sorted_commands(commands)
    IN  /\ Len(view) = Cardinality(DOMAIN commands)
        /\ \A k \in DOMAIN commands :
              \E i \in 1..Len(view) : view[i] = <<k, commands[k]>>
        /\ \A i \in 1..(Len(view) - 1) : LexBefore(view[i][1], view[i + 1][1])

\* three commands are tracked and the one added last, "A10", belongs in the
\* middle: after its prefix "A1" and before the shorter name "B0"
C9_Witness ==
    /\ Called /\ ~WasTracked
    /\ Cardinality(DOMAIN commands) = 3
    /\ last_call.command = <<65, 49, 48>>
    /\ get_sorted_commands(commands)[2][1] = last_call.command

(* C10: the last `limit` entries of the history are its last                *)
(* min(limit, length) entries in arrival order, oldest first; for           *)
(* limit >= 5 they are the whole history, so the recent-changes panel,      *)
(* which takes the last 5, shows the whole history at every refresh.        *)
WindowIsTail ==
    \A limit \in 1..MaxLimit :
        LET window == last_entries(recent_changes, limit)
            n == Len(recent_changes)
            k == IF limit < n THEN limit ELSE n
        IN  /\ Len(window) = k
            /\ \A i \in 1..k : window[i] = recent_changes[n - k + i]
            /\ limit >= MaxRecentChanges => window = recent_changes

C10_RecentWindow ==
    /\ []WindowIsTail
    /\ [][screen' /= screen => screen'.changes = recent_changes]_vars

\* the panel shows a full history from which an older record was evicted,
\* and shorter windows of it exist
C10_Witness ==
    /\ Len(all_changes) > MaxRecentChanges
    /\ Len(recent_changes) = MaxRecentChanges
    /\ screen.changes = recent_changes
    /\ Len(last_entries(recent_changes, 2)) = 2

----------------------------------------------------------------------------
(* highlight_diff, as the properties below read it *)

Highlighted == highlighted /= NotCalled

ShorterLen == IF Len(old_str) < Len(new_str) THEN Len(old_str) ELSE Len(new_str)

\* character i of a, wrapped in the marker
Wrapped(a, i) == INVERT \o <<a[i]>> \o RESET

\* positions from..to of a, each wrapped where it differs from b and bare
\* where it is the same
RECURSIVE ComparedRange(_, _, _, _)
ComparedRange(a, b, from, to) ==
    IF from > to THEN <<>>
    ELSE (IF a[from] /= b[from] THEN Wrapped(a, from) ELSE <<a[from]>>)
         \o ComparedRange(a, b, from + 1, to)

\* positions from..to of a, each wrapped
RECURSIVE WrappedRange(_, _, _)
WrappedRange(a, from, to) ==
    IF from > to THEN <<>>
    ELSE Wrapped(a, from) \o WrappedRange(a, from + 1, to)

IsPrefix(p, str) == Len(p) <= Len(str) /\ SubSeq(str, 1, Len(p)) = p

\* what follows the first n characters of str
After(str, n) == SubSeq(str, n + 1, Len(str))

StartsWith(str, p) == IsPrefix(p, str)

\* str without its INVERT and RESET sequences
RECURSIVE StripMarkers(_)
StripMarkers(str) ==
    IF str = <<>> THEN <<>>
    ELSE IF StartsWith(str, INVERT) \/ StartsWith(str, RESET)
         THEN StripMarkers(After(str, Len(INVERT)))
         ELSE <<Head(str)>> \o StripMarkers(Tail(str))

\* str is made of bare characters and of groups INVERT, one character, RESET
RECURSIVE WellMarked(_)
WellMarked(str) ==
    IF str = <<>> THEN TRUE
    ELSE IF StartsWith(str, INVERT)
         THEN /\ Len(str) >= Len(INVERT) + 1 + Len(RESET)
              /\ ~StartsWith(After(str, Len(INVERT)), INVERT)
              /\ ~StartsWith(After(str, Len(INVERT)), RESET)
              /\ StartsWith(After(str, Len(INVERT) + 1), RESET)
              /\ WellMarked(After(str, Len(INVERT) + 1 + Len(RESET)))
         ELSE /\ ~StartsWith(str, RESET)
              /\ WellMarked(Tail(str))

(* C11: highlight_diff(s, s) returns (s, s) for every string s, the empty   *)
(* string too: no marker is inserted.                                       *)
C11_EqualInputsUnmarked ==
    (Highlighted /\ old_str = new_str) => highlighted = <<old_str, new_str>>

\* highlight_diff("ABC", "ABC") has returned
C11_Witness ==
    /\ Highlighted
    /\ old_str = <<65, 66, 67>>
    /\ new_str = old_str
    /\ highlighted[1] = old_str

(* C12: for old /= new, at every position below the length of the shorter  *)
(* string the character is wrapped in a marker in both outputs when the     *)
(* two strings differ there and is emitted bare in both when they agree.    *)
C12_CommonPositions ==
    (Highlighted /\ old_str /= new_str) =>
        /\ IsPrefix(ComparedRange(old_str, new_str, 1, ShorterLen), highlighted[1])
        /\ IsPrefix(ComparedRange(new_str, old_str, 1, ShorterLen), highlighted[2])

\* highlight_diff("ABC", "ABD"): "AB" bare and the third character wrapped,
\* in both outputs
C12_Witness ==
    /\ Highlighted
    /\ old_str = <<65, 66, 67>>
    /\ new_str = <<65, 66, 68>>
    /\ highlighted[1] = <<65, 66>> \o INVERT \o <<67>> \o RESET
    /\ highlighted[2] = <<65, 66>> \o INVERT \o <<68>> \o RESET

(* C13: for strings of different lengths, every position at or beyond the   *)
(* end of the shorter string is wrapped in the output of the longer string  *)
(* and adds nothing to the output of the shorter one.                       *)
C13_BeyondShorter ==
    (Highlighted /\ Len(old_str) /= Len(new_str)) =>
        /\ After(highlighted[1],
                 Len(ComparedRange(old_str, new_str, 1, ShorterLen)))
             = WrappedRange(old_str, ShorterLen + 1, Len(old_str))
        /\ After(highlighted[2],
                 Len(ComparedRange(new_str, old_str, 1, ShorterLen)))
             = WrappedRange(new_str, ShorterLen + 1, Len(new_str))

\* highlight_diff("AB", "ABC"): the old string comes back bare, the new one
\* with its third character wrapped
C13_Witness ==
    /\ Highlighted
    /\ old_str = <<65, 66>>
    /\ new_str = <<65, 66, 67>>
    /\ highlighted[1] = old_str
    /\ highlighted[2] = <<65, 66>> \o INVERT \o <<67>> \o RESET

(* C14: update_command never fails or rejects its input: for any value and *)
(* dump (empty ones too) and any direction string (others than TX and RX    *)
(* too) it completes and stores the direction as given, and a call without  *)
(* dump returns what the same call with dump = "" returns and leaves the    *)
(* same state and history.                                                  *)
C14_AcceptsAnyInput ==
    /\ calls < MaxAnyCalls =>
          \A command \in AnyCommands, value \in Values,
             direction \in AnyDirections, dump_arg \in Dumps \cup {Omitted} :
             ENABLED update_command(command, value, direction, now, dump_arg)
    /\ Called =>
          /\ last_call.command \in DOMAIN commands
          /\ commands[last_call.command] = StateOf(last_call)
          /\ returned <=> \/ ~WasTracked
                          \/ Stored.value /= last_call.value
                          \/ Stored.dump /= last_call.dump
                          \/ Stored.direction /= last_call.direction
          /\ IF change_worthy(before.commands, last_call.command,
                              last_call.value, last_call.dump)
             THEN /\ AppendedOne
                  /\ recent_changes[Len(recent_changes)] =
                        expected_record(before.commands, last_call.command,
                                        last_call.value, last_call.direction,
                                        last_call.timestamp, last_call.dump)
             ELSE HistoryUntouched

\* a call without dump and with an unknown direction, for a command stored
\* with a dump: the dump is cleared and the change recorded
C14_Witness ==
    /\ Called /\ WasTracked
    /\ last_call.omitted
    /\ last_call.direction = "??"
    /\ last_call.value = <<>>
    /\ Stored.dump /= <<>>
    /\ commands[last_call.command].dump = <<>>
    /\ commands[last_call.command].direction = "??"
    /\ recent_changes /= before.recent_changes

----------------------------------------------------------------------------
(* The last message delivered, as the properties below read it *)

Delivered == handling.outcome /= "none"

\* the callback of the last message has ended
Handled == handling.outcome = "returned"

\* the message has no payload, or one that is no JSON, or a JSON object
\* whose protocol field is not "S21" or that has no command key of two or
\* more characters
FailsNormalization(msg) ==
    \/ msg.payload.kind \in {"empty", "invalid"}
    \/ /\ msg.payload.kind = "object"
       /\ \/ ~\E i \in 1..Len(msg.payload.fields) :
                 msg.payload.fields[i] = <<KeyProtocol, JStr(S21)>>
          \/ ~\E i \in 1..Len(msg.payload.fields) :
                 /\ msg.payload.fields[i][1] \notin {KeyProtocol, KeyDump}
                 /\ Len(msg.payload.fields[i][1]) >= 2

\* the direction a topic stands for
TopicDirection(topic) ==
    IF Len(topic) >= 3 /\ SubSeq(topic, Len(topic) - 2, Len(topic)) = <<47, 116, 120>>
    THEN "TX" ELSE "RX"

(* C15: a message that fails normalization (empty payload, invalid JSON,    *)
(* protocol field other than "S21", no command key of length >= 2) is       *)
(* dropped silently: update_command is not called, the command mapping and  *)
(* recent_changes are unchanged, the display is not refreshed and           *)
(* on_message returns without an error.                                     *)
C15_FailedMessageDropped ==
    (Delivered /\ FailsNormalization(handling.msg)) =>
        /\ pc = "idle"
        /\ handling.outcome = "returned"
        /\ handling.applied = <<>>
        /\ handling.refreshes = 0
        /\ calls = handling.calls_before
        /\ commands = handling.commands_before
        /\ recent_changes = handling.changes_before

\* a message of another protocol that names a command, delivered to a
\* tracker that already tracks that command
C15_Witness ==
    /\ Handled
    /\ handling.msg.payload = Object(<<ProtocolS22, <<A1, JStr(<<49>>)>>>>)
    /\ A1 \in DOMAIN commands
    /\ commands[A1].value /= <<51, 49>>
    /\ received = 2

(* C16: when on_message processes a message that normalizes to one or more  *)
(* records, update_command is applied to every record in order, whatever    *)
(* the earlier calls returned, and the display is refreshed exactly once,   *)
(* after the last record, if one of the calls returned true, and not at     *)
(* all if every call returned false.                                        *)
C16_EveryRecordThenOneRefresh ==
    (Handled /\ handling.parsed /= <<>>) =>
        LET n == Len(handling.parsed)
        IN  /\ Len(handling.applied) = n
            /\ calls = handling.calls_before + n
            /\ \A i \in 1..n :
                  LET r == handling.parsed[i]
                  IN  /\ handling.applied[i].record = r
                      /\ r.command \in DOMAIN commands
                      /\ commands[r.command] =
                            [value |-> r.payload,
                             direction |-> TopicDirection(handling.msg.topic),
                             timestamp |-> r.timestamp,
                             dump |-> r.dump]
            /\ IF \E i \in 1..Len(handling.applied) : handling.applied[i].returned
               THEN handling.refreshes = 1 /\ handling.refreshed_after = n
               ELSE handling.refreshes = 0

\* a message of two records of which the first changed its command and the
\* second did not: both were applied and the display was refreshed once
C16_Witness ==
    /\ Handled
    /\ Len(handling.applied) = 2
    /\ handling.applied[1].returned
    /\ ~handling.applied[2].returned
    /\ handling.refreshes = 1
    /\ observed.commands = commands

(* C17: no display refresh observes the tracker in the middle of an         *)
(* update_command call: at every refresh the history has at most 5 entries, *)
(* the latest ChangeRecord of every command in it agrees with the stored    *)
(* state of that command, and every command's value, dump, direction and    *)
(* timestamp are those of one update_command call.                          *)
C17_RefreshSeesCompletedUpdates ==
    /\ Len(observed.recent_changes) <= MaxRecentChanges
    /\ \A i \in 1..Len(observed.recent_changes) :
          LET r == observed.recent_changes[i]
          IN  /\ r.command \in DOMAIN observed.commands
              /\ (\A j \in (i + 1)..Len(observed.recent_changes) :
                      observed.recent_changes[j].command /= r.command)
                 => /\ observed.commands[r.command].value = r.new_value
                    /\ observed.commands[r.command].dump = r.new_dump
    /\ \A c \in DOMAIN observed.commands :
          /\ c \in DOMAIN observed.last_args
          /\ observed.commands[c] = StateOf(observed.last_args[c])

\* a refresh made after a sixth change had displaced the oldest record
C17_Witness ==
    /\ pc = "idle"
    /\ Len(all_changes) > MaxRecentChanges
    /\ Len(observed.recent_changes) = MaxRecentChanges
    /\ observed.recent_changes = recent_changes
    /\ observed.commands = commands

----------------------------------------------------------------------------
\* the positions of the records of command c in the history
RecordsOf(c) == {i \in 1..Len(recent_changes) : recent_changes[i].command = c}

\* i and j are positions of two records of c with no record of c between
ConsecutiveFor(c, i, j) ==
    /\ i \in RecordsOf(c) /\ j \in RecordsOf(c) /\ i < j
    /\ \A k \in RecordsOf(c) : ~(i < k /\ k < j)

(* C18: after every completed update_command call, for every command that  *)
(* has a ChangeRecord in recent_changes, its most recent record carries as  *)
(* new_value and new_dump the stored value and dump of the command, and of  *)
(* two consecutive records of the command the later one starts (old_value,  *)
(* old_dump) where the earlier one ends (new_value, new_dump).              *)
C18_RecordsChain ==
    \A c \in DOMAIN commands :
        /\ \A i \in RecordsOf(c) :
              (\A k \in RecordsOf(c) : k <= i)
              => /\ recent_changes[i].new_value = commands[c].value
                 /\ recent_changes[i].new_dump = commands[c].dump
        /\ \A i, j \in RecordsOf(c) :
              ConsecutiveFor(c, i, j)
              => /\ recent_changes[j].old_value = recent_changes[i].new_value
                 /\ recent_changes[j].old_dump = recent_changes[i].new_dump

\* two records of one command, the first changing its value and the second
\* its dump
C18_Witness ==
    /\ Len(recent_changes) = 2
    /\ recent_changes[1].command = recent_changes[2].command
    /\ recent_changes[1].value_changed /\ ~recent_changes[1].dump_changed
    /\ recent_changes[2].dump_changed /\ ~recent_changes[2].value_changed
    /\ commands[recent_changes[2].command].dump = recent_changes[2].new_dump

(* C19: update_command(c, ...) changes only the entry of c in the command   *)
(* mapping: the state of every other tracked command is unchanged, no       *)
(* command is removed, and the ChangeRecords already in recent_changes are  *)
(* not modified; they only leave from the front.                            *)
C19_OnlyItsOwnEntry ==
    Called =>
        LET old == before.recent_changes
            kept == IF recent_changes = old THEN Len(old)
                    ELSE Len(recent_changes) - 1
        IN  /\ DOMAIN commands = DOMAIN before.commands \cup {last_call.command}
            /\ \A k \in DOMAIN before.commands \ {last_call.command} :
                  commands[k] = before.commands[k]
            /\ kept <= Len(old)
            /\ SubSeq(recent_changes, 1, kept)
                 = SubSeq(old, Len(old) - kept + 1, Len(old))
            /\ Len(old) - kept <= 1

\* an update of "D1" that changes it and adds a record behind four earlier
\* ones, of both commands, while "D2" is tracked and keeps its state
C19_Witness ==
    /\ Called
    /\ last_call.command = D1
    /\ D2 \in DOMAIN before.commands
    /\ commands[D2] = before.commands[D2]
    /\ D1 \in DOMAIN before.commands
    /\ commands[D1] /= before.commands[D1]
    /\ Len(before.recent_changes) = 4
    /\ \E i \in 1..4 : before.recent_changes[i].command = D2
    /\ Len(recent_changes) = 5
    /\ SubSeq(recent_changes, 1, 4) = before.recent_changes

(* C20: for strings without marker characters, taking the INVERT and RESET  *)
(* sequences out of the two outputs of highlight_diff gives back the two    *)
(* inputs, and every INVERT is followed by one character and a RESET.       *)
C20_MarkersOnly ==
    Highlighted =>
        /\ StripMarkers(highlighted[1]) = old_str
        /\ StripMarkers(highlighted[2]) = new_str
        /\ WellMarked(highlighted[1])
        /\ WellMarked(highlighted[2])

\* strings of different lengths that differ at the first position and agree
\* at the second
C20_Witness ==
    /\ Highlighted
    /\ Len(old_str) = 3 /\ Len(new_str) = 2
    /\ old_str[1] /= new_str[1]
    /\ old_str[2] = new_str[2]
    /\ Len(highlighted[1]) = 3 + 2 * (Len(INVERT) + Len(RESET))
    /\ Len(highlighted[2]) = 2 + Len(INVERT) + Len(RESET)

====
